---- MODULE Spec2Model ----
(***************************************************************************)
(* A model of mcp-infra-manager: the client library api/client.py          *)
(* (MCPInfraClient) and the script scripts/generate-claude-config.py.      *)
(*                                                                         *)
(* Python values are modelled as follows.                                  *)
(*   - a dict with optional keys is a function whose DOMAIN is the set of  *)
(*     keys present (d.get(k, x) is Get(d, k, x));                         *)
(*   - the services mapping of the registry document is an insertion       *)
(*     ordered dict: a sequence of [id, info] items with distinct ids;     *)
(*   - a text is a sequence of one-character strings, so that split,       *)
(*     lower, title, replace and the substring test are computed;          *)
(*   - the prompt is the sequence of the texts appended to it, and the     *)
(*     literal pieces of its f-strings are kept whole.                     *)
(***************************************************************************)
EXTENDS Integers, Sequences, FiniteSets, TLC

VARIABLES
    registry,       \* self.registry: the registry document held by the client
    profiles,       \* self.profiles: the profile document held by the client
    registry_file,  \* registry/services.yaml on disk: readable with a document, or not
    profiles_file,  \* profiles/access-profiles.yaml on disk: readable with a document, or not
    loads,          \* number of _load_configs calls started so far
    regLoad,        \* the _load_configs call that assigned self.registry
    profLoad,       \* the _load_configs call that assigned self.profiles
    op,             \* the last operation called
    arg,            \* its arguments
    outcome,        \* "ok", or the exception it raised
    ret             \* the value it returned (<<>> when it raised)

vars == <<registry, profiles, registry_file, profiles_file, loads, regLoad,
          profLoad, op, arg, outcome, ret>>

(***************************************************************************)
(* Bounds of the model.                                                    *)
(***************************************************************************)
MaxServices == 2    \* services in a registry document
MaxRefs == 2        \* entries in a profile's service list
MaxRules == 2       \* selection rules in a profile document
MaxLoads == 3       \* _load_configs calls in a behaviour

(***************************************************************************)
(* Python helpers.                                                         *)
(***************************************************************************)
EmptyDict == [k \in {} |-> 0]

\* d.get(k, default)
Get(d, k, default) == IF k \in DOMAIN d THEN d[k] ELSE default

\* k in od, for an insertion ordered dict
HasKey(od, k) == \E i \in DOMAIN od : od[i].id = k

\* od[k], for an insertion ordered dict
Item(od, k) == od[CHOOSE i \in DOMAIN od : od[i].id = k].info

\* a dict whose key k is optional, with its value among vals
Opt(k, vals) == {EmptyDict} \cup {k :> v : v \in vals}

(***************************************************************************)
(* Texts used by the inputs below.                                         *)
(***************************************************************************)
T_node == <<"n", "o", "d", "e">>
T_proxy == <<"/", "u", "s", "r", "/", "l", "o", "c", "a", "l", "/", "b", "i", "n", "/",
             "m", "c", "p", "-", "p", "r", "o", "x", "y">>
T_http == <<"h", "t", "t", "p", ":", "/", "/">>
T_remote_host == <<"1", "0", ".", "0", ".", "0", ".", "2">>
T_localhost == <<"l", "o", "c", "a", "l", "h", "o", "s", "t">>
T_run_a == <<"r", "u", "n", "-", "a">>
T_npx == <<"n", "p", "x", " ", "-", "y", " ", "s", "r", "v">>
T_local == <<"l", "o", "c", "a", "l">>
T_workhorse == <<"w", "o", "r", "k", "h", "o", "r", "s", "e">>
T_other == <<"o", "t", "h", "e", "r">>
T_core == <<"c", "o", "r", "e">>
T_search == <<"s", "e", "a", "r", "c", "h">>
T_ai_context == <<"a", "i", "-", "c", "o", "n", "t", "e", "x", "t">>
T_project == <<"p", "r", "o", "j", "e", "c", "t">>
T_development == <<"d", "e", "v", "e", "l", "o", "p", "m", "e", "n", "t">>
T_misc == <<"m", "i", "s", "c">>
T_project_path == <<"p", "r", "o", "j", "e", "c", "t", "_", "p", "a", "t", "h">>
T_language == <<"l", "a", "n", "g", "u", "a", "g", "e">>
T_path_db == <<"/", "s", "r", "v", "/", "D", "B">>
T_path_web == <<"/", "w", "e", "b">>
T_task_db == <<"F", "i", "x", " ", "D", "B">>
T_task_web == <<"w", "e", "b", " ", "u", "i">>
T_kw_db == <<"d", "b">>
T_kw_DB == <<"D", "B">>
T_kw_web == <<"w", "e", "b">>
T_kw_path == <<"p", "a", "t", "h">>
T_kw_sql == <<"s", "q", "l">>
T_SQL == <<"S", "Q", "L">>
T_KEY == <<"K", "E", "Y">>

\* str(n) for an integer n >= 0
DigitChars == <<"0", "1", "2", "3", "4", "5", "6", "7", "8", "9">>

RECURSIVE Str(_)
Str(n) == IF n < 10 THEN <<DigitChars[n + 1]>>
          ELSE Str(n \div 10) \o <<DigitChars[(n % 10) + 1]>>

(***************************************************************************)
(* MCPInfraClient._format_service                                          *)
(***************************************************************************)
_format_service(service_id, service_info) ==
    LET location == Get(service_info, "location", T_local)
        host == IF location = T_workhorse THEN T_remote_host ELSE T_localhost
    IN  [id |-> service_id,
         name |-> service_info.name,
         description |-> service_info.description,
         url |-> T_http \o host \o <<":">> \o Str(service_info.port),
         port |-> service_info.port,
         category |-> Get(service_info, "category", T_other),
         location |-> location,
         requires_auth |-> Get(service_info, "requires_auth", FALSE),
         env_vars |-> Get(service_info, "env_vars", <<>>)]

(***************************************************************************)
(* MCPInfraClient.get_services_for_profile                                 *)
(***************************************************************************)
\* the inner loop over self.registry['services'].items(), from item j on
RECURSIVE WildcardLoop(_, _, _)
\* variant: the loop without the requires_auth test
WildcardLoopAll(items, j, services) ==
    IF j > Len(items) THEN services
    ELSE WildcardLoop(items, j + 1,
             Append(services, _format_service(items[j].id, items[j].info)))

WildcardLoop(items, j, services) ==
    IF j > Len(items) THEN services
    ELSE WildcardLoop(items, j + 1,
             IF ~Get(items[j].info, "requires_auth", FALSE)
             THEN Append(services, _format_service(items[j].id, items[j].info))
             ELSE services)

\* the loop over allowed_services, from entry i on
RECURSIVE ServiceLoop(_, _, _, _)
\* variant: the loop, were it to skip an identifier already in the result
ServiceLoopDedup(reg, allowed_services, i, services) ==
    IF i > Len(allowed_services) THEN services
    ELSE LET service_id == allowed_services[i]
         IN  ServiceLoop(reg, allowed_services, i + 1,
                 IF service_id = "*"
                 THEN WildcardLoop(reg.services, 1, services)
                 ELSE IF HasKey(reg.services, service_id)
                         /\ \A k \in DOMAIN services : services[k].id # service_id
                      THEN Append(services,
                               _format_service(service_id, Item(reg.services, service_id)))
                      ELSE services)

ServiceLoop(reg, allowed_services, i, services) ==
    IF i > Len(allowed_services) THEN services
    ELSE LET service_id == allowed_services[i]
         IN  ServiceLoop(reg, allowed_services, i + 1,
                 IF service_id = "*"
                 THEN WildcardLoop(reg.services, 1, services)
                 ELSE IF HasKey(reg.services, service_id)
                      THEN Append(services,
                               _format_service(service_id, Item(reg.services, service_id)))
                      ELSE services)

\* the call: [outcome, value]
\* variant: the call, were it to fall back to a profile that exists
get_services_for_profile_fallback(reg, prof, profile) ==
    LET known == DOMAIN prof.profiles
        used == IF profile \in known THEN profile ELSE CHOOSE p \in known : TRUE
    IN  IF known = {}
        THEN [outcome |-> "ValueError", value |-> <<>>]
        ELSE [outcome |-> "ok",
              value |-> ServiceLoop(reg, prof.profiles[used].services, 1, <<>>)]

get_services_for_profile(reg, prof, profile) ==
    IF profile \notin DOMAIN prof.profiles
    THEN [outcome |-> "ValueError", value |-> <<>>]
    ELSE [outcome |-> "ok",
          value |-> ServiceLoop(reg, prof.profiles[profile].services, 1, <<>>)]

(***************************************************************************)
(* Text operations of Python used by the renderers.                        *)
(***************************************************************************)
LowerChars == <<"a", "b", "c", "d", "e", "f", "g", "h", "i", "j", "k", "l", "m",
                "n", "o", "p", "q", "r", "s", "t", "u", "v", "w", "x", "y", "z">>
UpperChars == <<"A", "B", "C", "D", "E", "F", "G", "H", "I", "J", "K", "L", "M",
                "N", "O", "P", "Q", "R", "S", "T", "U", "V", "W", "X", "Y", "Z">>

IsLowerChar(c) == \E k \in DOMAIN LowerChars : LowerChars[k] = c
IsUpperChar(c) == \E k \in DOMAIN UpperChars : UpperChars[k] = c
ToUpperChar(c) ==
    IF IsLowerChar(c)
    THEN UpperChars[CHOOSE k \in DOMAIN LowerChars : LowerChars[k] = c] ELSE c
ToLowerChar(c) ==
    IF IsUpperChar(c)
    THEN LowerChars[CHOOSE k \in DOMAIN UpperChars : UpperChars[k] = c] ELSE c

\* s.lower()
Lower(s) == [k \in DOMAIN s |-> ToLowerChar(s[k])]

\* s.replace(old, new) for one-character old and new
Replace(s, old, new) == [k \in DOMAIN s |-> IF s[k] = old THEN new ELSE s[k]]

\* s.title(): a cased character is upper-cased after an uncased one (or at the
\* start) and lower-cased after a cased one
RECURSIVE TitleLoop(_, _, _, _)
TitleLoop(s, k, previous_is_cased, out) ==
    IF k > Len(s) THEN out
    ELSE LET c == s[k]
         IN  IF IsLowerChar(c)
             THEN TitleLoop(s, k + 1, TRUE,
                      Append(out, IF previous_is_cased THEN c ELSE ToUpperChar(c)))
             ELSE IF IsUpperChar(c)
             THEN TitleLoop(s, k + 1, TRUE,
                      Append(out, IF previous_is_cased THEN ToLowerChar(c) ELSE c))
             ELSE TitleLoop(s, k + 1, FALSE, Append(out, c))

Title(s) == TitleLoop(s, 1, FALSE, <<>>)

\* sep.join(lines)
RECURSIVE Join(_, _)
Join(lines, sep) ==
    IF lines = <<>> THEN <<>>
    ELSE IF Len(lines) = 1 THEN lines[1]
    ELSE lines[1] \o sep \o Join(Tail(lines), sep)

IsSpaceChar(c) == c \in {" ", "\t", "\n"}

\* s.split(): the maximal runs of non-whitespace characters, from character k on,
\* word being the run read so far
RECURSIVE SplitLoop(_, _, _, _)
SplitLoop(s, k, word, parts) ==
    IF k > Len(s) THEN (IF word = <<>> THEN parts ELSE Append(parts, word))
    ELSE IF IsSpaceChar(s[k])
         THEN SplitLoop(s, k + 1, <<>>, IF word = <<>> THEN parts ELSE Append(parts, word))
         ELSE SplitLoop(s, k + 1, Append(word, s[k]), parts)

Split(s) == SplitLoop(s, 1, <<>>, <<>>)

(***************************************************************************)
(* MCPInfraClient._format_service_prompt                                   *)
(* The literal pieces of an f-string are kept whole; interpolated texts    *)
(* are their characters.                                                   *)
(***************************************************************************)
\* the backtick character, which a TLA+ string cannot hold
Backtick == "<backtick>"

_format_service_prompt(service) ==
    LET lines == <<
            <<"**">> \o service.name \o <<"** (", Backtick, service.id, Backtick, ")">>,
            <<"- URL: ">> \o service.url,
            <<"- Purpose: ">> \o service.description >>
        all == IF Get(service, "requires_auth", FALSE)
               THEN Append(lines, <<"- Note: Requires authentication token">>)
               ELSE lines
    IN  Join(all, <<"\n">>) \o <<"\n\n">>

(***************************************************************************)
(* MCPInfraClient.generate_prompt_section                                  *)
(* The prompt is the sequence of the texts the code appends to it.         *)
(***************************************************************************)
NoServicesText == <<"\nNo MCP services are available for this task.">>
PromptHeaderText == <<"\nYou have access to the following MCP services:\n\n">>
PromptClosingText ==
    <<"Only use the MCP services listed above. Do not attempt to access any other services.\n">>

category_order == <<T_core, T_search, T_ai_context, T_project, T_development, T_other>>

\* f"### {category.replace('-', ' ').title()} Services\n\n"
CategoryHeader(category) ==
    <<"### ">> \o Title(Replace(category, "-", " ")) \o <<" Services\n\n">>

\* the grouping loop: categories is an insertion ordered dict of lists
RECURSIVE GroupLoop(_, _, _)
GroupLoop(services, i, categories) ==
    IF i > Len(services) THEN categories
    ELSE LET svc == services[i]
             cat == svc.category
             created == IF ~HasKey(categories, cat)
                        THEN Append(categories, [id |-> cat, info |-> <<>>])
                        ELSE categories
         IN  GroupLoop(services, i + 1,
                 [k \in DOMAIN created |->
                     IF created[k].id = cat
                     THEN [id |-> cat, info |-> Append(created[k].info, svc)]
                     ELSE created[k]])

\* prompt += _format_service_prompt(svc) for svc in services
RECURSIVE RenderLoop(_, _, _)
RenderLoop(services, i, prompt) ==
    IF i > Len(services) THEN prompt
    ELSE RenderLoop(services, i + 1, Append(prompt, _format_service_prompt(services[i])))

\* the loop over category_order, from position c on
RECURSIVE CategoryLoop(_, _, _, _)
\* variant: the loop, were it to append a category outside the fixed order
CategoryLoopAppendUnknown(order, categories, c, prompt) ==
    IF c > Len(order)
    THEN LET unknown == SelectSeq(categories,
                            LAMBDA e : \A k \in DOMAIN order : order[k] # e.id)
         IN  IF unknown = <<>> THEN prompt
             ELSE RenderLoop(unknown[1].info, 1,
                      Append(prompt, CategoryHeader(unknown[1].id)))
    ELSE CategoryLoop(order, categories, c + 1,
             IF HasKey(categories, order[c])
             THEN RenderLoop(Item(categories, order[c]), 1,
                      Append(prompt, CategoryHeader(order[c])))
             ELSE prompt)

CategoryLoop(order, categories, c, prompt) ==
    IF c > Len(order) THEN prompt
    ELSE CategoryLoop(order, categories, c + 1,
             IF HasKey(categories, order[c])
             THEN RenderLoop(Item(categories, order[c]), 1,
                      Append(prompt, CategoryHeader(order[c])))
             ELSE prompt)

\* the part of generate_prompt_section after the services are resolved
\* variant: the rendering without the test for an empty list
RenderPromptAlwaysHeader(services, include_categories) ==
    LET body == IF include_categories
                THEN CategoryLoop(category_order, GroupLoop(services, 1, <<>>), 1,
                         <<PromptHeaderText>>)
                ELSE RenderLoop(services, 1, <<PromptHeaderText>>)
    IN  Append(body, PromptClosingText)

RenderPrompt(services, include_categories) ==
    IF services = <<>> THEN <<NoServicesText>>
    ELSE LET body == IF include_categories
                     THEN CategoryLoop(category_order, GroupLoop(services, 1, <<>>), 1,
                              <<PromptHeaderText>>)
                     ELSE RenderLoop(services, 1, <<PromptHeaderText>>)
         IN  Append(body, PromptClosingText)

\* the call: [outcome, value]
generate_prompt_section(reg, prof, profile, include_categories) ==
    LET resolved == get_services_for_profile(reg, prof, profile)
    IN  IF resolved.outcome # "ok" THEN resolved
        ELSE [outcome |-> "ok",
              value |-> RenderPrompt(resolved.value, include_categories)]

(***************************************************************************)
(* MCPInfraClient.generate_claude_desktop_config                           *)
(* mcpServers is a dict: a function from the identifiers that have an      *)
(* entry to their launch specs.                                            *)
(***************************************************************************)
\* d[k] = v
Put(d, k, v) == [x \in (DOMAIN d) \cup {k} |-> IF x = k THEN v ELSE d[x]]

\* {var: f"${{{var}}}" for var in env_vars}
EnvPlaceholders(env_vars) ==
    [var \in {env_vars[k] : k \in DOMAIN env_vars} |-> <<"$", "{">> \o var \o <<"}">>]

\* the launch spec of a local service: ["ok", spec] or ["none"]
\* variant: the launch spec, were the command not split
LocalLaunchNoSplit(command) ==
    IF command # <<>>
    THEN [kind |-> "ok", spec |-> [command |-> command, args |-> <<>>]]
    ELSE [kind |-> "none"]

LocalLaunch(command) ==
    LET command_parts == Split(command)
    IN  IF command_parts # <<>>
        THEN [kind |-> "ok",
              spec |-> [command |-> command_parts[1],
                        args |-> IF Len(command_parts) > 1
                                 THEN Tail(command_parts) ELSE <<>>]]
        ELSE [kind |-> "none"]

\* the launch spec of a service reached through the proxy
ProxyLaunch(url) == [command |-> T_node, args |-> <<T_proxy, url>>]

\* the loop over the resolved services, from service i on: [outcome, value]
RECURSIVE ConfigLoop(_, _, _, _)
ConfigLoop(reg, services, i, servers) ==
    IF i > Len(services)
    THEN [outcome |-> "ok", value |-> [mcpServers |-> servers]]
    ELSE LET svc == services[i]
             local == LocalLaunch(Get(Item(reg.services, svc.id), "command", <<>>))
             launched ==
                 IF svc.location = T_workhorse
                 THEN Put(servers, svc.id, ProxyLaunch(svc.url))
                 ELSE IF local.kind = "ok"
                      THEN Put(servers, svc.id, local.spec)
                      ELSE servers
         IN  IF svc.env_vars # <<>>
             THEN IF svc.id \notin DOMAIN launched
                  THEN [outcome |-> "KeyError", value |-> <<>>]
                  ELSE ConfigLoop(reg, services, i + 1,
                           Put(launched, svc.id,
                               Put(launched[svc.id], "env",
                                   EnvPlaceholders(svc.env_vars))))
             ELSE ConfigLoop(reg, services, i + 1, launched)

\* the call: [outcome, value]
generate_claude_desktop_config(reg, prof, profile) ==
    LET resolved == get_services_for_profile(reg, prof, profile)
    IN  IF resolved.outcome # "ok" THEN resolved
        ELSE ConfigLoop(reg, resolved.value, 1, EmptyDict)

(***************************************************************************)
(* scripts/generate-claude-config.py: add_service_to_config and main       *)
(***************************************************************************)
\* add_service_to_config on config['mcpServers'] = servers: [outcome, value]
add_service_to_config(servers, service_id, service_info) ==
    LET local == LocalLaunch(Get(service_info, "command", <<>>))
        launched ==
            IF Get(service_info, "location", <<>>) = T_workhorse
            THEN Put(servers, service_id,
                     ProxyLaunch(T_http \o T_remote_host \o <<":">>
                                 \o Str(service_info.port)))
            ELSE IF local.kind = "ok"
                 THEN Put(servers, service_id, local.spec)
                 ELSE servers
    IN  IF "env_vars" \in DOMAIN service_info
        THEN IF service_id \notin DOMAIN launched
             THEN [outcome |-> "KeyError", value |-> <<>>]
             ELSE [outcome |-> "ok",
                   value |-> Put(launched, service_id,
                                 Put(launched[service_id], "env",
                                     EnvPlaceholders(service_info.env_vars)))]
        ELSE [outcome |-> "ok", value |-> launched]

\* main's inner loop over registry['services'].items(), from item j on
RECURSIVE ScriptWildcardLoop(_, _, _)
ScriptWildcardLoop(items, j, servers) ==
    IF j > Len(items) THEN [outcome |-> "ok", value |-> servers]
    ELSE LET added == add_service_to_config(servers, items[j].id, items[j].info)
         IN  IF added.outcome # "ok" THEN added
             ELSE ScriptWildcardLoop(items, j + 1, added.value)

\* main's loop over allowed_services, from entry i on
RECURSIVE ScriptLoop(_, _, _, _)
ScriptLoop(reg, allowed_services, i, servers) ==
    IF i > Len(allowed_services)
    THEN [outcome |-> "ok", value |-> [mcpServers |-> servers]]
    ELSE LET service_id == allowed_services[i]
             added ==
                 IF service_id = "*"
                 THEN ScriptWildcardLoop(reg.services, 1, servers)
                 ELSE IF HasKey(reg.services, service_id)
                      THEN add_service_to_config(servers, service_id,
                               Item(reg.services, service_id))
                      ELSE [outcome |-> "ok", value |-> servers]
         IN  IF added.outcome # "ok" THEN added
             ELSE ScriptLoop(reg, allowed_services, i + 1, added.value)

\* main, after the two documents are read: [outcome, value]
script_main(reg, prof, profile_name) ==
    IF profile_name \notin DOMAIN prof.profiles
    THEN [outcome |-> "SystemExit", value |-> <<>>]
    ELSE ScriptLoop(reg, prof.profiles[profile_name].services, 1, EmptyDict)

(***************************************************************************)
(* MCPInfraClient.determine_profile                                        *)
(***************************************************************************)
\* needle in haystack, for texts
Contains(haystack, needle) ==
    \E k \in 0..(Len(haystack) - Len(needle)) :
        SubSeq(haystack, k + 1, k + Len(needle)) = needle

\* any(keyword in text for keyword in keywords)
AnyKeywordIn(keywords, text) ==
    \E k \in DOMAIN keywords : Contains(text, keywords[k])

\* repr(s) for a text without quotes or escapes
Repr(s) == <<"'">> \o s \o <<"'">>

\* str(d) for a dict of texts, an insertion ordered dict
StrDict(d) ==
    <<"{">>
    \o Join([k \in DOMAIN d |-> Repr(d[k].id) \o <<":", " ">> \o Repr(d[k].info)],
            <<",", " ">>)
    \o <<"}">>

\* the checks of one rule's condition, each with its early return
RuleFires(condition, task, project_context) ==
    IF /\ "project_path_contains" \in DOMAIN condition
       /\ Contains(IF HasKey(project_context, T_project_path)
                   THEN Item(project_context, T_project_path) ELSE <<>>,
                   condition.project_path_contains)
    THEN TRUE
    ELSE IF /\ "task_contains" \in DOMAIN condition
            /\ AnyKeywordIn(condition.task_contains, Lower(task))
    THEN TRUE
    ELSE IF /\ "context_contains" \in DOMAIN condition
            /\ AnyKeywordIn(condition.context_contains, Lower(StrDict(project_context)))
    THEN TRUE
    ELSE Get(condition, "default", FALSE)

\* the loop over the selection rules, from rule r on
RECURSIVE RuleLoop(_, _, _, _)
\* variant: the loop, were the last matching rule to decide
RuleLoopLastMatch(rules, r, task, project_context) ==
    IF r > Len(rules) THEN "default"
    ELSE LET later == RuleLoop(rules, r + 1, task, project_context)
         IN  IF later # "default" THEN later
             ELSE IF RuleFires(rules[r].condition, task, project_context)
                  THEN rules[r].profile ELSE "default"

RuleLoop(rules, r, task, project_context) ==
    IF r > Len(rules) THEN "default"
    ELSE IF RuleFires(rules[r].condition, task, project_context)
         THEN rules[r].profile
         ELSE RuleLoop(rules, r + 1, task, project_context)

determine_profile(prof, task, project_context) ==
    RuleLoop(Get(prof, "selection_rules", <<>>), 1, task, project_context)

(***************************************************************************)
(* Inputs: registry documents and profile documents.                       *)
(***************************************************************************)
ServiceIds == {"a", "b", "c"}
TwoServiceIds == {"a", "b"}
ProfileNames == {"dev", "default", "ghost"}

\* the keys every service entry has
BaseInfo == [name |-> <<"N">>, description |-> <<"d">>, port |-> 1000]

\* ordered dicts of at most n items with ids among ids and infos among D
RECURSIVE OrderedDicts(_, _, _)
OrderedDicts(ids, D, n) ==
    IF n = 0 THEN {<<>>}
    ELSE LET shorter == OrderedDicts(ids, D, n - 1)
         IN  shorter \cup
             {Append(od, [id |-> s, info |-> d]) :
                 od \in {o \in shorter : Len(o) = n - 1},
                 s \in {x \in ids : TRUE}, d \in D}

DistinctIds(od) == \A i, j \in DOMAIN od : od[i].id = od[j].id => i = j

\* a registry document: the keys of its services mapping are distinct
RegistryDocs(ids, D) ==
    {[services |-> od] :
        od \in {o \in OrderedDicts(ids, D, MaxServices) : DistinctIds(o)}}

RECURSIVE SeqsUpTo(_, _)
SeqsUpTo(S, n) ==
    IF n = 0 THEN {<<>>}
    ELSE LET shorter == SeqsUpTo(S, n - 1)
         IN  shorter \cup
             {Append(s, x) : s \in {t \in shorter : Len(t) = n - 1}, x \in S}

\* the service list of a profile: literal identifiers and the wildcard
ServiceLists(ids) == SeqsUpTo(ids \cup {"*"}, MaxRefs)

\* the profiles mapping: "dev" with any list, and "default" or not
ProfileMaps(ids) ==
    {"dev" :> [services |-> l] : l \in ServiceLists(ids)}
    \cup {("dev" :> [services |-> l]) @@ ("default" :> [services |-> <<"*">>]) :
             l \in ServiceLists(ids)}

ProfileDocs(ids) == {[profiles |-> pm] : pm \in ProfileMaps(ids)}

\* a file on disk
Readable(docs) == {[readable |-> TRUE, doc |-> d] : d \in docs}
UnreadableFile == [readable |-> FALSE]

(***************************************************************************)
(* Operations as actions.                                                  *)
(***************************************************************************)
Loaded == <<registry, profiles, loads, regLoad, profLoad>>
Files == <<registry_file, profiles_file>>

\* the state after MCPInfraClient(base_path) returned: __init__ ran
\* _load_configs once, and it read both files
InitLoaded(regs, profs) ==
    /\ registry_file \in Readable(regs)
    /\ profiles_file \in Readable(profs)
    /\ registry = registry_file.doc
    /\ profiles = profiles_file.doc
    /\ loads = 1
    /\ regLoad = 1
    /\ profLoad = 1
    /\ op = "init"
    /\ arg = <<>>
    /\ outcome = "ok"
    /\ ret = <<>>

Returns(name, arguments, result) ==
    /\ op' = name
    /\ arg' = arguments
    /\ outcome' = result.outcome
    /\ ret' = result.value

GetServicesForProfile ==
    \E profile \in ProfileNames :
        /\ Returns("get_services_for_profile", [profile |-> profile],
                   get_services_for_profile(registry, profiles, profile))
        /\ UNCHANGED <<Loaded, Files>>

GeneratePromptSection ==
    \E profile \in ProfileNames, include_categories \in BOOLEAN :
        /\ Returns("generate_prompt_section",
                   [profile |-> profile, include_categories |-> include_categories],
                   generate_prompt_section(registry, profiles, profile,
                                           include_categories))
        /\ UNCHANGED <<Loaded, Files>>

GenerateClaudeDesktopConfig ==
    \E profile \in ProfileNames :
        /\ Returns("generate_claude_desktop_config", [profile |-> profile],
                   generate_claude_desktop_config(registry, profiles, profile))
        /\ UNCHANGED <<Loaded, Files>>

\* generate-claude-config.py <profile>: the script reads the two files itself
ScriptMain ==
    \E profile \in ProfileNames :
        /\ Returns("script_main", [profile |-> profile],
                   IF registry_file.readable /\ profiles_file.readable
                   THEN script_main(registry_file.doc, profiles_file.doc, profile)
                   ELSE [outcome |-> "OSError", value |-> <<>>])
        /\ UNCHANGED <<Loaded, Files>>

(***************************************************************************)
(* MCPInfraClient._load_configs and reload_configs                         *)
(***************************************************************************)
\* open(self.registry_file) and yaml.safe_load, then the same for the profiles:
\* each assignment is made as soon as its file is read
_load_configs ==
    /\ loads' = loads + 1
    /\ IF ~registry_file.readable
       THEN /\ UNCHANGED <<registry, regLoad, profiles, profLoad>>
            /\ outcome' = "OSError"
       ELSE /\ registry' = registry_file.doc
            /\ regLoad' = loads + 1
            /\ IF ~profiles_file.readable
               THEN /\ UNCHANGED <<profiles, profLoad>>
                    /\ outcome' = "OSError"
               ELSE /\ profiles' = profiles_file.doc
                    /\ profLoad' = loads + 1
                    /\ outcome' = "ok"

ReloadConfigs ==
    /\ loads < MaxLoads
    /\ _load_configs
    /\ op' = "reload_configs"
    /\ arg' = <<>>
    /\ ret' = <<>>
    /\ UNCHANGED Files

(***************************************************************************)
(* The resolver: registries whose services differ in requires_auth.        *)
(***************************************************************************)
ResolveInfos == {BaseInfo @@ a : a \in Opt("requires_auth", {TRUE, FALSE})}

InitResolve ==
    InitLoaded(RegistryDocs(ServiceIds, ResolveInfos), ProfileDocs(ServiceIds))

NextResolve ==
    \/ GetServicesForProfile
    \/ GeneratePromptSection
    \/ GenerateClaudeDesktopConfig

SpecResolve == InitResolve /\ [][NextResolve]_vars

(***************************************************************************)
(* The prompt renderer: services that differ in category and requires_auth.*)
(***************************************************************************)
PromptInfos ==
    {BaseInfo @@ c @@ a :
        c \in Opt("category", {T_core, T_ai_context, T_misc}),
        a \in Opt("requires_auth", {TRUE})}

InitPrompt ==
    InitLoaded(RegistryDocs(TwoServiceIds, PromptInfos), ProfileDocs(TwoServiceIds))

NextPrompt == GeneratePromptSection

SpecPrompt == InitPrompt /\ [][NextPrompt]_vars

(***************************************************************************)
(* The config renderers: services that differ in location, command,        *)
(* env_vars and requires_auth.                                             *)
(***************************************************************************)
ConfigInfos ==
    {BaseInfo @@ c @@ e @@ a :
        c \in Opt("command", {<<" ">>, T_run_a, T_npx}),
        e \in Opt("env_vars", {<<>>, <<T_KEY>>}),
        a \in Opt("requires_auth", {TRUE})}
    \cup
    {BaseInfo @@ [location |-> T_workhorse] @@ e @@ a :
        e \in Opt("env_vars", {<<T_KEY>>}),
        a \in Opt("requires_auth", {TRUE})}
    \cup
    {BaseInfo @@ [location |-> T_local] @@ c :
        c \in Opt("command", {<<>>, T_run_a})}

ConfigProfileDocs ==
    {[profiles |-> "dev" :> [services |-> l]] : l \in ServiceLists(TwoServiceIds)}

InitConfig ==
    InitLoaded(RegistryDocs(TwoServiceIds, ConfigInfos), ConfigProfileDocs)

NextConfig ==
    \/ GenerateClaudeDesktopConfig
    \/ ScriptMain

SpecConfig == InitConfig /\ [][NextConfig]_vars

(***************************************************************************)
(* The profile selector: profile documents with selection rules.           *)
(***************************************************************************)
Conditions ==
    {p @@ t @@ c :
        p \in Opt("project_path_contains", {T_kw_DB}),
        t \in Opt("task_contains", {<<T_kw_DB, T_kw_web>>}),
        c \in Opt("context_contains", {<<T_kw_sql>>})}
    \cup {[default |-> TRUE],
          [default |-> FALSE],
          [task_contains |-> <<T_kw_db>>, default |-> TRUE],
          [context_contains |-> <<T_kw_path>>]}

Rules == {[condition |-> c, profile |-> p] : c \in Conditions, p \in {"dev", "db"}}

SelectProfileMap == "dev" :> [services |-> <<"*">>]

SelectProfileDocs ==
    {[profiles |-> SelectProfileMap]}
    \cup {[profiles |-> SelectProfileMap, selection_rules |-> rules] :
             rules \in SeqsUpTo(Rules, MaxRules)}

Tasks == {T_task_db, T_task_web}

\* project_context: an insertion ordered dict of texts
Contexts ==
    {<<>>,
     <<[id |-> T_project_path, info |-> T_path_db]>>,
     <<[id |-> T_language, info |-> T_SQL]>>,
     <<[id |-> T_project_path, info |-> T_path_web], [id |-> T_language, info |-> T_SQL]>>}

DetermineProfile ==
    \E task \in Tasks, project_context \in Contexts :
        /\ Returns("determine_profile",
                   [task |-> task, project_context |-> project_context],
                   [outcome |-> "ok",
                    value |-> determine_profile(profiles, task, project_context)])
        /\ UNCHANGED <<Loaded, Files>>

InitSelect ==
    InitLoaded(RegistryDocs({"a"}, {BaseInfo}), SelectProfileDocs)

NextSelect == DetermineProfile

SpecSelect == InitSelect /\ [][NextSelect]_vars

(***************************************************************************)
(* Reloading: the two files change on disk between loads.                  *)
(***************************************************************************)
ReloadRegistryDocs == RegistryDocs({"a"}, {BaseInfo})

ReloadProfileDocs ==
    {[profiles |-> "dev" :> [services |-> l]] : l \in {<<>>, <<"a">>}}

\* another process rewrites, removes or corrupts registry/services.yaml
WriteRegistryFile ==
    /\ registry_file' \in Readable(ReloadRegistryDocs) \cup {UnreadableFile}
    /\ registry_file' # registry_file
    /\ UNCHANGED <<profiles_file, Loaded, op, arg, outcome, ret>>

\* another process rewrites, removes or corrupts profiles/access-profiles.yaml
WriteProfilesFile ==
    /\ profiles_file' \in Readable(ReloadProfileDocs) \cup {UnreadableFile}
    /\ profiles_file' # profiles_file
    /\ UNCHANGED <<registry_file, Loaded, op, arg, outcome, ret>>

InitReload == InitLoaded(ReloadRegistryDocs, ReloadProfileDocs)

NextReload ==
    \/ WriteRegistryFile
    \/ WriteProfilesFile
    \/ ReloadConfigs
    \/ GetServicesForProfile

SpecReload == InitReload /\ [][NextReload]_vars

(***************************************************************************)
(* Properties of the resolver (SpecResolve).                               *)
(***************************************************************************)
\* the profile's service list of the last call, when the profile exists
ProfileKnown == arg.profile \in DOMAIN profiles.profiles
Allowed == profiles.profiles[arg.profile].services

Occurrences(s, x) == Cardinality({k \in DOMAIN s : s[k] = x})
IdsOf(services) == [k \in DOMAIN services |-> services[k].id]
RequiresAuth(i) == Get(registry.services[i].info, "requires_auth", FALSE)

Resolved == op = "get_services_for_profile" /\ outcome = "ok"

\* C1: a service with requires_auth = true is never in the result because of
\* the wildcard: it occurs in the result exactly as often as its identifier is
\* listed literally in the profile's service list.
C1_WildcardExcludesAuth ==
    Resolved =>
        \A i \in DOMAIN registry.services :
            RequiresAuth(i) =>
                Occurrences(IdsOf(ret), registry.services[i].id)
                    = Occurrences(Allowed, registry.services[i].id)

\* a wildcard met a registry that holds a requires_auth service, one of them
\* listed literally as well
C1_Witness ==
    /\ Resolved
    /\ \E k \in DOMAIN Allowed : Allowed[k] = "*"
    /\ \E i \in DOMAIN registry.services :
          /\ RequiresAuth(i)
          /\ Occurrences(IdsOf(ret), registry.services[i].id) = 1
    /\ \E i \in DOMAIN registry.services : ~RequiresAuth(i)

\* what one entry of the service list stands for
EntryIds(ref) ==
    IF ref = "*"
    THEN IdsOf(SelectSeq(registry.services,
                         LAMBDA e : ~Get(e.info, "requires_auth", FALSE)))
    ELSE IF \E i \in DOMAIN registry.services : registry.services[i].id = ref
         THEN <<ref>>
         ELSE <<>>

RECURSIVE ConcatEntries(_)
ConcatEntries(refs) ==
    IF refs = <<>> THEN <<>>
    ELSE EntryIds(Head(refs)) \o ConcatEntries(Tail(refs))

\* C2: for a profile of the profile set the call raises nothing and the
\* identifiers of the result are the concatenation, in the declared order of
\* the service list, of what each entry stands for: the registry identifiers
\* without requires_auth, in registry order, for the wildcard, the identifier
\* itself for a literal of the registry, nothing for a literal that is absent;
\* duplicates stay.
C2_ResolvedIsConcatenation ==
    (op = "get_services_for_profile" /\ ProfileKnown) =>
        /\ outcome = "ok"
        /\ IdsOf(ret) = ConcatEntries(Allowed)

\* an identifier listed and also covered by the wildcard is in the result twice
C2_Witness ==
    /\ Resolved
    /\ \E k \in DOMAIN Allowed : Allowed[k] = "*"
    /\ \E k \in DOMAIN Allowed :
          Allowed[k] # "*" /\ Occurrences(IdsOf(ret), Allowed[k]) = 2
    /\ Len(ret) > Len(Allowed)

\* C3: with a profile name that is no key of the profile set,
\* get_services_for_profile, generate_prompt_section and
\* generate_claude_desktop_config raise ValueError and return nothing.
C3_UnknownProfileRaises ==
    (/\ op \in {"get_services_for_profile", "generate_prompt_section",
                "generate_claude_desktop_config"}
     /\ ~ProfileKnown)
        => (outcome = "ValueError" /\ ret = <<>>)

\* an unknown name was asked for while other profiles exist
C3_Witness ==
    /\ op = "generate_prompt_section"
    /\ arg.profile = "ghost"
    /\ DOMAIN profiles.profiles = {"dev", "default"}
    /\ outcome = "ValueError"

(***************************************************************************)
(* Properties of the prompt renderer (SpecPrompt).                         *)
(***************************************************************************)
Prompted == op = "generate_prompt_section" /\ outcome = "ok"

\* the list the renderer was given
ResolvedForCall == get_services_for_profile(registry, profiles, arg.profile).value

\* a text of the prompt that is a category header, and the category it names
IsHeader(text) ==
    /\ Len(text) >= 2
    /\ text[1] = "### "
    /\ text[Len(text)] = " Services\n\n"
HeaderCategory(text) == Replace(Lower(SubSeq(text, 2, Len(text) - 1)), " ", "-")

\* the identifier a service text shows between backticks
ShownId(text) == text[(CHOOSE k \in DOMAIN text : text[k] = Backtick /\
                          \A j \in 1..(k - 1) : text[j] # Backtick) + 1]

\* the fixed order of the categories
FixedOrder == <<T_core, T_search, T_ai_context, T_project, T_development, T_other>>
KnownCategories == {FixedOrder[k] : k \in DOMAIN FixedOrder}
CategoryOfId(id) == Get(Item(registry.services, id), "category", T_other)

\* the header in force at position k of the prompt
HeaderBefore(prompt, k) ==
    LET before == {j \in 1..(k - 1) : IsHeader(prompt[j])}
    IN  prompt[CHOOSE j \in before : \A h \in before : h <= j]

\* C8: with grouping on and a non-empty resolved list, the category headers of
\* the prompt, read back as category names, are the fixed order restricted to
\* the categories some resolved service has; every rendered service stands
\* under the header of its category, so that a service of a category outside
\* the fixed set is not rendered; and the services under a header are those of
\* the category, in resolved order.
C8_HeadersRoundTrip ==
    (Prompted /\ arg.include_categories /\ ResolvedForCall # <<>>) =>
        LET services == ResolvedForCall
            body == SubSeq(ret, 2, Len(ret) - 1)
            headers == SelectSeq(body, IsHeader)
            populated(c) == \E k \in DOMAIN services : services[k].category = c
        IN  /\ [k \in DOMAIN headers |-> HeaderCategory(headers[k])]
                   = SelectSeq(FixedOrder, populated)
            /\ \A k \in 2..(Len(ret) - 1) :
                   ~IsHeader(ret[k]) =>
                       /\ \E j \in 2..(k - 1) : IsHeader(ret[j])
                       /\ HeaderCategory(HeaderBefore(ret, k))
                              = CategoryOfId(ShownId(ret[k]))
            /\ \A c \in KnownCategories :
                   LET shown == SelectSeq(body,
                                    LAMBDA t : ~IsHeader(t) /\ CategoryOfId(ShownId(t)) = c)
                       given == SelectSeq(services, LAMBDA s : s.category = c)
                   IN  [k \in DOMAIN shown |-> ShownId(shown[k])] = IdsOf(given)

\* two known categories were populated against the fixed order, and a prompt
\* with both headers was returned
C8_Witness ==
    /\ Prompted
    /\ arg.include_categories
    /\ Len(ResolvedForCall) = 2
    /\ ResolvedForCall[1].category = T_ai_context
    /\ ResolvedForCall[2].category = T_core
    /\ Len(ret) = 6

\* the profile resolves to nothing: every entry of its list is a literal absent
\* from the registry, or the wildcard over a registry of requires_auth services
ResolvesToNothing ==
    \A k \in DOMAIN Allowed :
        IF Allowed[k] = "*"
        THEN \A i \in DOMAIN registry.services : RequiresAuth(i)
        ELSE \A i \in DOMAIN registry.services : registry.services[i].id # Allowed[k]

\* C9: when the profile resolves to an empty list the prompt is exactly the
\* 'no services available' sentence, for both values of the grouping flag;
\* otherwise the prompt is never that sentence.
C9_EmptyPrompt ==
    Prompted =>
        /\ ResolvesToNothing => ret = <<NoServicesText>>
        /\ ~ResolvesToNothing => (Len(ret) >= 2 /\ ret[1] # NoServicesText)

\* the wildcard over a non-empty registry of requires_auth services
C9_Witness ==
    /\ Prompted
    /\ ~arg.include_categories
    /\ Allowed = <<"*">>
    /\ Len(registry.services) = 2
    /\ ret = <<NoServicesText>>

(***************************************************************************)
(* Properties of the config renderers (SpecConfig).                        *)
(***************************************************************************)
Configured == op = "generate_claude_desktop_config" /\ outcome = "ok"

\* the whitespace separated tokens of a text, stated by their positions
TokenStarts(s) ==
    {k \in DOMAIN s : ~IsSpaceChar(s[k]) /\ (k = 1 \/ IsSpaceChar(s[k - 1]))}
TokenAt(s, k) ==
    SubSeq(s, k, CHOOSE e \in k..Len(s) :
                     /\ \A j \in k..e : ~IsSpaceChar(s[j])
                     /\ (e = Len(s) \/ IsSpaceChar(s[e + 1])))
FirstToken(s) == TokenAt(s, CHOOSE k \in TokenStarts(s) : \A j \in TokenStarts(s) : k <= j)
\* the n-th token start, in increasing order
NthStart(s, n) ==
    CHOOSE k \in TokenStarts(s) : Cardinality({j \in TokenStarts(s) : j <= k}) = n
OtherTokens(s) ==
    [n \in 1..(Cardinality(TokenStarts(s)) - 1) |-> TokenAt(s, NthStart(s, n + 1))]

CommandOfId(id) == Get(Item(registry.services, id), "command", <<>>)

\* C6: generate_claude_desktop_config returns a document for every profile of
\* the profile set; in it a local service with an empty or whitespace-only
\* command has no entry, and every service with an entry and env var names has
\* the env mapping of each name to its placeholder.
C6_ConfigNeverFails ==
    (op = "generate_claude_desktop_config" /\ ProfileKnown) =>
        /\ outcome = "ok"
        /\ \A k \in DOMAIN ResolvedForCall :
               LET svc == ResolvedForCall[k]
               IN  /\ (svc.location = T_local /\ TokenStarts(CommandOfId(svc.id)) = {})
                       => svc.id \notin DOMAIN ret.mcpServers
                   /\ (svc.id \in DOMAIN ret.mcpServers /\ svc.env_vars # <<>>)
                       => /\ "env" \in DOMAIN ret.mcpServers[svc.id]
                          /\ \A e \in DOMAIN svc.env_vars :
                                 ret.mcpServers[svc.id].env[svc.env_vars[e]]
                                     = <<"$", "{">> \o svc.env_vars[e] \o <<"}">>

\* C7: in a returned document a workhorse service has the proxy launch spec
\* with its URL http://10.0.0.2:<port>, a local service whose command has a
\* token has command = first token and args = the other tokens, and the keys
\* of mcpServers are the identifiers of exactly these services.
C7_LaunchSpecs ==
    Configured =>
        LET services == ResolvedForCall
            launched(svc) ==
                \/ svc.location = T_workhorse
                \/ svc.location = T_local /\ TokenStarts(CommandOfId(svc.id)) # {}
        IN  /\ \A k \in DOMAIN services :
                   LET svc == services[k]
                       spec == ret.mcpServers[svc.id]
                   IN  /\ svc.location = T_workhorse =>
                              /\ spec.command = T_node
                              /\ spec.args = <<T_proxy,
                                               T_http \o T_remote_host \o <<":">>
                                                   \o Str(svc.port)>>
                       /\ (svc.location = T_local
                           /\ TokenStarts(CommandOfId(svc.id)) # {}) =>
                              /\ spec.command = FirstToken(CommandOfId(svc.id))
                              /\ spec.args = OtherTokens(CommandOfId(svc.id))
            /\ DOMAIN ret.mcpServers
                   = {services[k].id : k \in {j \in DOMAIN services : launched(services[j])}}

\* a document with a proxied service and a local service of three tokens
C7_Witness ==
    /\ Configured
    /\ \E k \in DOMAIN ResolvedForCall :
           /\ ResolvedForCall[k].location = T_workhorse
           /\ ResolvedForCall[k].id \in DOMAIN ret.mcpServers
    /\ \E k \in DOMAIN ResolvedForCall :
           /\ ResolvedForCall[k].location = T_local
           /\ CommandOfId(ResolvedForCall[k].id) = T_npx
           /\ Len(ret.mcpServers[ResolvedForCall[k].id].args) = 2

\* C10: the script's document has the same mcpServers mapping as the client's
\* for the same registry and profile.
C10_ScriptMatchesClient ==
    (op = "script_main" /\ ProfileKnown) =>
        LET client == generate_claude_desktop_config(registry, profiles, arg.profile)
        IN  /\ outcome = client.outcome
            /\ outcome = "ok" => ret.mcpServers = client.value.mcpServers

(***************************************************************************)
(* Properties of the profile selector (SpecSelect).                        *)
(***************************************************************************)
Selected == op = "determine_profile"

\* a rule matches when any one of its present conditions holds
RuleMatches(rule, task, project_context) ==
    LET condition == rule.condition
        project_path ==
            IF \E k \in DOMAIN project_context : project_context[k].id = T_project_path
            THEN Item(project_context, T_project_path) ELSE <<>>
    IN  \/ /\ "project_path_contains" \in DOMAIN condition
           /\ Contains(project_path, condition.project_path_contains)
        \/ /\ "task_contains" \in DOMAIN condition
           /\ \E k \in DOMAIN condition.task_contains :
                  Contains(Lower(task), condition.task_contains[k])
        \/ /\ "context_contains" \in DOMAIN condition
           /\ \E k \in DOMAIN condition.context_contains :
                  Contains(Lower(StrDict(project_context)),
                           condition.context_contains[k])
        \/ /\ "default" \in DOMAIN condition
           /\ condition.default

\* C4: determine_profile returns the profile of the first rule, in declared
\* order, that matches, whatever the rules after it are, and "default" when no
\* rule matches.
C4_FirstMatchingRule ==
    Selected =>
        LET rules == IF "selection_rules" \in DOMAIN profiles
                     THEN profiles.selection_rules ELSE <<>>
            matching == {r \in DOMAIN rules :
                            RuleMatches(rules[r], arg.task, arg.project_context)}
        IN  IF matching = {}
            THEN ret = "default"
            ELSE ret = rules[CHOOSE r \in matching : \A q \in matching : r <= q].profile

\* the first rule has a condition that fails and a later one that holds, the
\* second rule matches too and names another profile
C4_Witness ==
    /\ Selected
    /\ "selection_rules" \in DOMAIN profiles
    /\ Len(profiles.selection_rules) = 2
    /\ LET first == profiles.selection_rules[1]
           second == profiles.selection_rules[2]
       IN  /\ DOMAIN first.condition = {"project_path_contains", "context_contains"}
           /\ arg.project_context = <<[id |-> T_language, info |-> T_SQL]>>
           /\ RuleMatches(first, arg.task, arg.project_context)
           /\ RuleMatches(second, arg.task, arg.project_context)
           /\ first.profile = "db"
           /\ second.profile = "dev"
           /\ ret = "db"

(***************************************************************************)
(* Properties of reloading (SpecReload).                                   *)
(***************************************************************************)
\* C5: the registry and the profile set held by the client always come from
\* the same load.
C5_SameLoad == regLoad = profLoad

====
